---- MODULE Spec2Model ----
(***************************************************************************)
(* Model of the VideoSplitter component (src/unnamed/part_000): the        *)
(* session state held in React state and refs, the three asynchronous      *)
(* flows (duration probe, in-browser ffmpeg run, server upload and poll    *)
(* loop) as tasks suspended at their awaits, and the event handlers.       *)
(*                                                                         *)
(* Each action is one JavaScript turn: a handler up to its first await, or *)
(* the continuation of an await up to the next one.  State updates made in *)
(* one turn are seen together (React batches them).                        *)
(*                                                                         *)
(* Sizes are byte counts written <<q, r>> = q MiB + r bytes, because       *)
(* 5 * 1024^3 does not fit the model checker's integers.  Durations are    *)
(* whole seconds.  Progress values are exact fractions <<n, d>>.           *)
(***************************************************************************)
EXTENDS Integers, Sequences, FiniteSets, TLC

VARIABLES status, error, warning, progress, selectedFile, videoDuration,
          splitFiles, useServerProcessing, currentJobIdRef,
          tasks, nextJob, terminal, deleted, abandoned, events, last

(* status .. useServerProcessing are the useState cells of lines 24-32 and   *)
(* currentJobIdRef the ref of line 34.  tasks holds the suspended flows,     *)
(* nextJob the next job id the server hands out.  The rest is history kept   *)
(* for the properties: terminal (jobs a poll has seen end), deleted (jobs a  *)
(* DELETE went out for), abandoned, events (handler calls so far) and last   *)
(* (the step just taken).                                                    *)

session == <<status, error, warning, progress, selectedFile, videoDuration,
             splitFiles, useServerProcessing, currentJobIdRef>>

vars == <<status, error, warning, progress, selectedFile, videoDuration,
          splitFiles, useServerProcessing, currentJobIdRef,
          tasks, nextJob, terminal, deleted, abandoned, events, last>>

-----------------------------------------------------------------------------
(* Bounds of the model *)

\* handler calls (user events) in one behaviour
MaxEvents == 4
\* handler calls in one behaviour when the handlers are called directly
MaxCalls == 3
\* pending duration probes at one time
MaxProbes == 2
\* in-browser runs in progress at one time
MaxLocal == 1
\* server flows in progress at one time
MaxRemote == 2
\* jobs the server accepts in one behaviour (job ids are never reused)
MaxJobs == 2
\* parts the server may list for a completed job
MaxServerParts == 2

-----------------------------------------------------------------------------
(* Program constants *)

SEGMENT_DURATION == 120
BROWSER_MAX_SIZE == <<300, 0>>
SERVER_MAX_SIZE == <<5 * 1024, 0>>

Null == "null"
NoError == <<>>
NoJob == 0

\* a > b on byte counts <<q, r>>, r below one MiB
SizeGT(a, b) == a[1] > b[1] \/ (a[1] = b[1] /\ a[2] > b[2])

-----------------------------------------------------------------------------
(* The files the user can pick.  dur is what video.duration reports once   *)
(* the metadata is loaded; readable = FALSE makes video.onerror fire.      *)
(* name is the file name cut at its dots: <<"clip", "v2", "mp4">> stands   *)
(* for clip.v2.mp4.                                                        *)

FileNames == {"A", "B", "C", "D", "E", "F", "G", "H"}

FileOf(name) ==
  CASE name = "A" -> [name |-> <<"a", "mp4">>, type |-> <<"video", "mp4">>, size |-> <<300, 0>>,      readable |-> TRUE,  dur |-> 241]
    [] name = "B" -> [name |-> <<"b", "v2", "mp4">>, type |-> <<"video", "mp4">>, size |-> <<300, 1>>,      readable |-> TRUE,  dur |-> 121]
    [] name = "C" -> [name |-> <<"c">>, type |-> <<"video", "webm">>, size |-> <<10, 0>>,      readable |-> TRUE,  dur |-> 60]
    [] name = "D" -> [name |-> <<"d", "mp4">>, type |-> <<"video", "mp4">>, size |-> <<5 * 1024, 1>>, readable |-> TRUE,  dur |-> 60]
    [] name = "E" -> [name |-> <<"e", "txt">>, type |-> <<"text", "plain">>, size |-> <<1, 0>>,       readable |-> FALSE, dur |-> 0]
    [] name = "F" -> [name |-> <<"f", "mp4">>, type |-> <<"video", "mp4">>, size |-> <<20, 0>>,       readable |-> FALSE, dur |-> 0]
    [] name = "G" -> [name |-> <<"g", "">>, type |-> <<"video", "mp4">>, size |-> <<5 * 1024, 0>>, readable |-> TRUE,  dur |-> 120]
    [] name = "H" -> [name |-> <<"h", "mov">>, type |-> <<"video", "quicktime">>, size |-> <<6 * 1024, 0>>, readable |-> TRUE,  dur |-> 300]

-----------------------------------------------------------------------------
(* Suspended asynchronous flows.  One record shape serves the three kinds  *)
(* ("probe", "local", "remote") and the DELETE request of handleReset       *)
(* ("cancel"); a field a kind does not use keeps its value from NoTask.    *)
(*   file       the File captured by the closure                           *)
(*   useServer  shouldUseServer captured by handleFileSelect               *)
(*   D          videoDuration captured by splitVideoBrowser                *)
(*   pc         the await the flow is suspended at                         *)
(*   i, files   loop counter and the local files array                     *)
(*   written    the values a local run has passed to setProgress, in order *)
(*   fs         names present in the ffmpeg file system of this run        *)
(*   urls       object URLs this run created and has not revoked           *)
(*   calls      <<-ss, -t>> of every ffmpeg.run issued by this run         *)
(*   jobId      the job id the upload answered with, or the DELETE names   *)

NoTask ==
  [id |-> 0, kind |-> "none", file |-> Null, useServer |-> FALSE, D |-> 0,
   pc |-> "none", i |-> 0, files |-> <<>>, written |-> <<>>, fs |-> {},
   urls |-> {}, calls |-> <<>>, jobId |-> NoJob]

MaxTasks == MaxProbes + MaxLocal + MaxRemote + MaxJobs

FreshId == CHOOSE n \in 1..(MaxTasks + 1) :
             /\ \A t \in tasks : t.id # n
             /\ \A m \in 1..(n - 1) : \E t \in tasks : t.id = m

OfKind(k) == {t \in tasks : t.kind = k}

Zero == <<0, 1>>

\* fractions <<n, d>>, d > 0
FracLE(a, b) == a[1] * b[2] <= b[1] * a[2]
FracEq(a, b) == a[1] * b[2] = b[1] * a[2]

-----------------------------------------------------------------------------
(* handleFileSelect, lines 52-93, up to the await of getVideoDuration *)

IsVideoType(f) == f.type[1] = "video"

FileTooLargeFlipped(f) == SizeGT(SERVER_MAX_SIZE, f.size)

FileTooLarge(f) == SizeGT(f.size, SERVER_MAX_SIZE)

ShouldUseServer(f) == SizeGT(f.size, BROWSER_MAX_SIZE)

\* the job flows that are between the upload's answer and their last poll
\* (the loop of lines 120-146)
Polling == {t \in OfKind("remote") : t.pc \in {"sleep", "poll"}}

\* history: the jobs whose flow was in that loop when the session was reset
\* or took a new file
Abandon == abandoned' = abandoned \cup {t.jobId : t \in Polling}

HandleFileSelect(name) ==
  /\ name \in FileNames
  /\ LET f == FileOf(name) IN
     /\ warning' = Null
     /\ splitFiles' = <<>>
     /\ progress' = Zero
     /\ UNCHANGED <<videoDuration, currentJobIdRef, nextJob, terminal, deleted>>
     /\ IF ~IsVideoType(f)
          THEN /\ error' = <<"validation", "notVideo">>
               /\ status' = "error"
               /\ UNCHANGED <<selectedFile, useServerProcessing, tasks, abandoned>>
               /\ last' = [op |-> "selectFile", file |-> name, task |-> NoTask, out |-> "notVideo"]
          ELSE IF FileTooLarge(f)
          THEN /\ error' = <<"validation", "tooLarge">>
               /\ status' = "error"
               /\ UNCHANGED <<selectedFile, useServerProcessing, tasks, abandoned>>
               /\ last' = [op |-> "selectFile", file |-> name, task |-> NoTask, out |-> "tooLarge"]
          ELSE /\ Cardinality(OfKind("probe")) < MaxProbes
               /\ error' = NoError
               /\ selectedFile' = name
               /\ useServerProcessing' = ShouldUseServer(f)
               /\ status' = "loading"
               /\ Abandon
               /\ LET t == [NoTask EXCEPT !.id = FreshId, !.kind = "probe", !.file = name,
                                          !.useServer = ShouldUseServer(f), !.pc = "metadata"]
                  IN /\ tasks' = tasks \cup {t}
                     /\ last' = [op |-> "selectFile", file |-> name, task |-> t, out |-> "probing"]

\* the change event carries no file (line 54)
HandleFileSelectNone ==
  /\ last' = [op |-> "selectFile", file |-> Null, task |-> NoTask, out |-> "noFile"]
  /\ UNCHANGED <<session, tasks, nextJob, terminal, deleted, abandoned>>

-----------------------------------------------------------------------------
(* getVideoDuration settles (lines 36-50) and handleFileSelect resumes     *)
(* (lines 80-92)                                                           *)

NoSplitNeeded(duration) == duration <= SEGMENT_DURATION

ProbeResolve(t) ==
  /\ t \in OfKind("probe")
  /\ FileOf(t.file).readable
  /\ LET duration == FileOf(t.file).dur IN
     /\ videoDuration' = duration
     /\ warning' = IF NoSplitNeeded(duration) THEN "NoSplitNeeded"
                   ELSE IF t.useServer THEN "LargeFileUsingRemote"
                   ELSE warning
     /\ status' = "ready"
  /\ tasks' = tasks \ {t}
  /\ last' = [op |-> "probeResolve", file |-> t.file, task |-> t, out |-> "ok"]
  /\ UNCHANGED <<error, progress, selectedFile, splitFiles, useServerProcessing,
                 currentJobIdRef, nextJob, terminal, deleted, abandoned>>

ProbeReject(t) ==
  /\ t \in OfKind("probe")
  /\ ~FileOf(t.file).readable
  /\ error' = <<"probe", "unreadable">>
  /\ status' = "error"
  /\ tasks' = tasks \ {t}
  /\ last' = [op |-> "probeReject", file |-> t.file, task |-> t, out |-> "error"]
  /\ UNCHANGED <<warning, progress, selectedFile, videoDuration, splitFiles,
                 useServerProcessing, currentJobIdRef, nextJob, terminal, deleted, abandoned>>

-----------------------------------------------------------------------------
(* handleReset, lines 239-255 *)

HandleReset ==
  /\ IF currentJobIdRef # NoJob
       THEN /\ deleted' = deleted \cup {currentJobIdRef}
            /\ tasks' = tasks \cup {[NoTask EXCEPT !.id = FreshId, !.kind = "cancel",
                                                  !.pc = "delete", !.jobId = currentJobIdRef]}
            /\ currentJobIdRef' = NoJob
       ELSE UNCHANGED <<deleted, currentJobIdRef, tasks>>
  /\ status' = "idle"
  /\ error' = NoError
  /\ warning' = Null
  /\ selectedFile' = Null
  /\ videoDuration' = 0
  /\ splitFiles' = <<>>
  /\ progress' = Zero
  /\ Abandon
  /\ last' = [op |-> "reset", file |-> Null, task |-> NoTask,
              out |-> IF currentJobIdRef # NoJob THEN "cancel" ELSE "none"]
  /\ UNCHANGED <<useServerProcessing, nextJob, terminal>>

CancelCatchRaises ==
  /\ status' = "error"
  /\ error' = <<"server", "cancel failed">>

\* .catch(() => {}), line 241
CancelCatch == UNCHANGED <<status, error>>

\* DELETE /job/{jobId} settles, line 241: the answer is not read and a
\* failure is caught
CancelSettled(t, ok) ==
  /\ t \in OfKind("cancel")
  /\ IF ok THEN UNCHANGED <<status, error>> ELSE CancelCatch
  /\ tasks' = tasks \ {t}
  /\ last' = [op |-> "cancelSettled", file |-> Null, task |-> t,
              out |-> IF ok THEN "ok" ELSE "failed"]
  /\ UNCHANGED <<warning, progress, selectedFile, videoDuration, splitFiles,
                 useServerProcessing, currentJobIdRef, nextJob, terminal, deleted, abandoned>>

-----------------------------------------------------------------------------
(* splitVideoBrowser, lines 153-214 *)

CeilDiv(a, b) == (a + b - 1) \div b

NumPartsFloor(duration) == duration \div SEGMENT_DURATION

\* Math.ceil(videoDuration / SEGMENT_DURATION), lines 170 and 257
NumParts(duration) == CeilDiv(duration, SEGMENT_DURATION)

\* filename.replace(/\.[^/.]+$/, ''), src/unnamed/part_001 lines 21-23: the
\* last dot and what follows it go, when something follows it
GetBaseName(name) ==
  IF Len(name) > 1 /\ name[Len(name)] # ""
    THEN SubSeq(name, 1, Len(name) - 1)
    ELSE name

StartTimeFromOne(i) == (i + 1) * SEGMENT_DURATION

\* i * SEGMENT_DURATION, line 177
StartTime(i) == i * SEGMENT_DURATION

PartNumber(i) == i + 1

\* 'input.mp4', line 172
InputFileName == <<"input.mp4">>

\* `output_${i}.mp4`, line 179
OutputFileName(i) == <<"output", i>>

UnlinkOutputSkipped(fs, i) == fs

\* ffmpeg.FS('unlink', outputFileName), line 203
UnlinkOutput(fs, i) == fs \ {OutputFileName(i)}

\* ffmpeg.FS('unlink', 'input.mp4'), line 207
UnlinkInput(fs) == fs \ {InputFileName}

MidProgressLate(i, numParts) == <<(2 * i + 3) * 100, 2 * numParts>>

\* ((i + 0.5) / numParts) * 100
MidProgress(i, numParts) == <<(2 * i + 1) * 100, 2 * numParts>>

\* ((i + 1) / numParts) * 100
EndProgress(i, numParts) == <<(i + 1) * 100, numParts>>

\* one pass of the loop head, lines 177-191: the ffmpeg.run call of segment i
IssueRun(t, i) ==
  [t EXCEPT !.pc = "run", !.i = i,
            !.written = Append(@, MidProgress(i, NumParts(t.D))),
            !.calls = Append(@, <<StartTime(i), SEGMENT_DURATION>>)]

\* the catch clause, lines 210-213
LocalFail(t, t2, cause) ==
  /\ error' = <<"local", cause>>
  /\ status' = "error"
  /\ tasks' = tasks \ {t}
  /\ last' = [op |-> "localFail", file |-> t.file, task |-> t2, out |-> cause]
  /\ UNCHANGED <<warning, selectedFile, videoDuration, splitFiles,
                 useServerProcessing, currentJobIdRef, nextJob, terminal, deleted, abandoned>>

\* lines 207-209
LocalComplete(t, t2) ==
  /\ splitFiles' = t2.files
  /\ status' = "completed"
  /\ tasks' = tasks \ {t}
  /\ last' = [op |-> "localDone", file |-> t.file,
              task |-> [t2 EXCEPT !.pc = "done", !.fs = UnlinkInput(@)], out |-> "ok"]
  /\ UNCHANGED <<error, warning, selectedFile, videoDuration,
                 useServerProcessing, currentJobIdRef, nextJob, terminal, deleted, abandoned>>

\* the synchronous part, lines 154-167; ffmpegPresent = FALSE is window.FFmpeg
\* missing, which throws inside the try
SplitVideoBrowser(ffmpegPresent) ==
  IF selectedFile = Null
    THEN /\ last' = [op |-> "startSplit", file |-> Null, task |-> NoTask, out |-> "noFile"]
         /\ UNCHANGED <<session, tasks, nextJob, terminal, deleted, abandoned>>
    ELSE /\ Cardinality(OfKind("local")) < MaxLocal
         /\ progress' = Zero
         /\ UNCHANGED <<warning, selectedFile, videoDuration, splitFiles,
                        useServerProcessing, currentJobIdRef, nextJob, terminal, deleted, abandoned>>
         /\ LET t == [NoTask EXCEPT !.id = FreshId, !.kind = "local", !.file = selectedFile,
                                    !.D = videoDuration, !.pc = "load", !.written = <<Zero>>]
            IN IF ffmpegPresent
                 THEN /\ status' = "processing"
                      /\ tasks' = tasks \cup {t}
                      /\ last' = [op |-> "startSplit", file |-> selectedFile, task |-> t, out |-> "local"]
                      /\ UNCHANGED error
                 ELSE /\ status' = "error"
                      /\ error' = <<"local", "noFFmpeg">>
                      /\ last' = [op |-> "startSplit", file |-> selectedFile,
                                  task |-> [t EXCEPT !.pc = "failed"], out |-> "localThrew"]
                      /\ UNCHANGED tasks

\* ffmpeg.load() settles, line 167; then lines 169-172 up to fetchFile
LocalLoaded(t, ok) ==
  /\ t \in OfKind("local") /\ t.pc = "load"
  /\ IF ok
       THEN /\ tasks' = (tasks \ {t}) \cup {[t EXCEPT !.pc = "fetch"]}
            /\ last' = [op |-> "localLoaded", file |-> t.file, task |-> [t EXCEPT !.pc = "fetch"], out |-> "ok"]
            /\ UNCHANGED <<session, nextJob, terminal, deleted, abandoned>>
       ELSE /\ LocalFail(t, [t EXCEPT !.pc = "failed"], "load")
            /\ UNCHANGED progress

\* fetchFile settles, line 172; then the loop head or, with no part, lines 207-209
LocalFetched(t, ok) ==
  /\ t \in OfKind("local") /\ t.pc = "fetch"
  /\ IF ~ok
       THEN /\ LocalFail(t, [t EXCEPT !.pc = "failed"], "fetch")
            /\ UNCHANGED progress
       ELSE LET t1 == [t EXCEPT !.fs = {InputFileName}] IN
            IF 0 < NumParts(t.D)
              THEN LET t2 == IssueRun(t1, 0) IN
                   /\ progress' = MidProgress(0, NumParts(t.D))
                   /\ tasks' = (tasks \ {t}) \cup {t2}
                   /\ last' = [op |-> "localFetched", file |-> t.file, task |-> t2, out |-> "ok"]
                   /\ UNCHANGED <<status, error, warning, selectedFile, videoDuration, splitFiles,
                                  useServerProcessing, currentJobIdRef, nextJob, terminal,
                                  deleted, abandoned>>
              ELSE LocalComplete(t, t1) /\ UNCHANGED progress

\* ffmpeg.run settles, line 184; then lines 193-204 and the next loop head or
\* lines 207-209.  out names the call that throws, if one does.
LocalRan(t, out) ==
  /\ t \in OfKind("local") /\ t.pc = "run"
  /\ LET numParts == NumParts(t.D)
         url == <<"blob", t.id, t.i>>
         seg == [name |-> <<GetBaseName(FileOf(t.file).name), "part", t.i + 1>>,
                 partNumber |-> PartNumber(t.i), url |-> url, downloadUrl |-> Null]
         made == [t EXCEPT !.fs = @ \cup {OutputFileName(t.i)}]
         pushed == [made EXCEPT !.urls = @ \cup {url}, !.files = Append(@, seg)]
         ended == [pushed EXCEPT !.fs = UnlinkOutput(@, t.i),
                                 !.written = Append(@, EndProgress(t.i, numParts))]
     IN CASE out = "run" -> LocalFail(t, [t EXCEPT !.pc = "failed"], out) /\ UNCHANGED progress
          [] out = "read" -> LocalFail(t, [made EXCEPT !.pc = "failed"], out) /\ UNCHANGED progress
          [] out = "unlink" -> LocalFail(t, [pushed EXCEPT !.pc = "failed"], out) /\ UNCHANGED progress
          [] out = "ok" ->
               IF t.i + 1 < numParts
                 THEN LET t2 == IssueRun(ended, t.i + 1) IN
                      /\ progress' = MidProgress(t.i + 1, numParts)
                      /\ tasks' = (tasks \ {t}) \cup {t2}
                      /\ last' = [op |-> "localRan", file |-> t.file, task |-> t2, out |-> "ok"]
                      /\ UNCHANGED <<status, error, warning, selectedFile, videoDuration,
                                     splitFiles, useServerProcessing, currentJobIdRef, nextJob,
                                     terminal, deleted, abandoned>>
                 ELSE LocalComplete(t, ended) /\ progress' = EndProgress(t.i, numParts)

LocalOutcomes == {"ok", "run", "read", "unlink"}


-----------------------------------------------------------------------------
(* splitVideoServer, lines 95-151.  The server is outside the program: what *)
(* it answers is any of the shapes of section GET /status/{jobId}.          *)

ServerProgress == {50, 100}
ServerDetails == {"decode failed", ""}

\* the job's parts as the server lists them
ServerFiles(n) == [k \in 1..n |-> [name |-> <<"srv", "part", k>>, partNumber |-> k]]

JobStatuses ==
  [ok : {FALSE}, status : {"none"}, progress : {0}, error : {""}, files : {<<>>}]
  \cup [ok : {TRUE}, status : {"error"}, progress : {0}, error : ServerDetails, files : {<<>>}]
  \cup [ok : {TRUE}, status : {"processing"}, progress : ServerProgress, error : {""}, files : {<<>>}]
  \cup [ok : {TRUE}, status : {"completed"}, progress : {100}, error : {""},
        files : {ServerFiles(n) : n \in 1..MaxServerParts}]

IsJobError(jobStatus) == jobStatus.status = "error"

IsJobCompletedNever(jobStatus) == FALSE

IsJobCompleted(jobStatus) == jobStatus.status = "completed"

\* the catch clause, lines 147-150
RemoteFail(t, message, op) ==
  /\ error' = <<"server", message>>
  /\ status' = "error"
  /\ tasks' = tasks \ {t}
  /\ last' = [op |-> op, file |-> t.file, task |-> [t EXCEPT !.pc = "failed"], out |-> message]
  /\ UNCHANGED <<warning, progress, selectedFile, videoDuration, splitFiles,
                 useServerProcessing, deleted, abandoned>>

\* the synchronous part, lines 96-109
SplitVideoServer ==
  IF selectedFile = Null
    THEN /\ last' = [op |-> "startSplit", file |-> Null, task |-> NoTask, out |-> "noFile"]
         /\ UNCHANGED <<session, tasks, nextJob, terminal, deleted, abandoned>>
    ELSE /\ Cardinality(OfKind("remote")) < MaxRemote
         /\ nextJob <= MaxJobs
         /\ status' = "processing"
         /\ progress' = Zero
         /\ LET t == [NoTask EXCEPT !.id = FreshId, !.kind = "remote", !.file = selectedFile,
                                    !.pc = "upload"]
            IN /\ tasks' = tasks \cup {t}
               /\ last' = [op |-> "startSplit", file |-> selectedFile, task |-> t, out |-> "remote"]
         /\ UNCHANGED <<error, warning, selectedFile, videoDuration, splitFiles,
                        useServerProcessing, currentJobIdRef, nextJob, terminal, deleted, abandoned>>

\* POST /split settles, lines 106-118, up to the first timer
Uploaded(t, ok) ==
  /\ t \in OfKind("remote") /\ t.pc = "upload"
  /\ IF ok
       THEN LET t2 == [t EXCEPT !.pc = "sleep", !.jobId = nextJob] IN
            /\ nextJob <= MaxJobs
            /\ nextJob' = nextJob + 1
            /\ currentJobIdRef' = nextJob
            /\ tasks' = (tasks \ {t}) \cup {t2}
            /\ last' = [op |-> "uploaded", file |-> t.file, task |-> t2, out |-> "ok"]
            /\ UNCHANGED <<status, error, warning, progress, selectedFile, videoDuration,
                           splitFiles, useServerProcessing, terminal, deleted, abandoned>>
       ELSE /\ RemoteFail(t, "upload failed", "uploadFailed")
            /\ UNCHANGED <<currentJobIdRef, nextJob, terminal>>

\* the 2 s timer fires and GET /status/{jobId} goes out, lines 121-123
PollIssue(t) ==
  /\ t \in OfKind("remote") /\ t.pc = "sleep"
  /\ tasks' = (tasks \ {t}) \cup {[t EXCEPT !.pc = "poll"]}
  /\ last' = [op |-> "pollIssue", file |-> t.file, task |-> [t EXCEPT !.pc = "poll"], out |-> "sent"]
  /\ UNCHANGED <<session, nextJob, terminal, deleted, abandoned>>

\* GET /status/{jobId} settles, lines 124-145
PollAnswer(t, jobStatus) ==
  /\ t \in OfKind("remote") /\ t.pc = "poll"
  /\ jobStatus \in JobStatuses
  /\ terminal' = IF ~jobStatus.ok \/ jobStatus.status \in {"completed", "error"}
                   THEN terminal \cup {t.jobId} ELSE terminal
  /\ UNCHANGED <<currentJobIdRef, nextJob>>
  /\ IF ~jobStatus.ok
       THEN RemoteFail(t, "status failed", "pollAnswer")
       ELSE IF IsJobError(jobStatus)
       THEN RemoteFail(t, IF jobStatus.error # "" THEN jobStatus.error ELSE "processing error",
                       "pollAnswer")
       ELSE LET t1 == t IN
            /\ progress' = <<jobStatus.progress, 1>>
            /\ UNCHANGED <<error, warning, selectedFile, videoDuration, useServerProcessing,
                           deleted, abandoned>>
            /\ IF IsJobCompleted(jobStatus)
                 THEN /\ splitFiles' = [k \in 1..Len(jobStatus.files) |->
                                          [name |-> jobStatus.files[k].name,
                                           partNumber |-> jobStatus.files[k].partNumber,
                                           url |-> Null,
                                           downloadUrl |-> <<"download", t.jobId,
                                                             jobStatus.files[k].partNumber>>]]
                      /\ status' = "completed"
                      /\ tasks' = tasks \ {t}
                      /\ last' = [op |-> "pollAnswer", file |-> t.file,
                                  task |-> [t1 EXCEPT !.pc = "done"], out |-> "completed"]
                 ELSE /\ tasks' = (tasks \ {t}) \cup {[t1 EXCEPT !.pc = "sleep"]}
                      /\ last' = [op |-> "pollAnswer", file |-> t.file,
                                  task |-> [t1 EXCEPT !.pc = "sleep"], out |-> "processing"]
                      /\ UNCHANGED <<status, splitFiles>>

-----------------------------------------------------------------------------
(* handleSplit, lines 216-222 *)

HandleSplit ==
  IF useServerProcessing
    THEN SplitVideoServer
    ELSE \E ffmpegPresent \in BOOLEAN : SplitVideoBrowser(ffmpegPresent)

-----------------------------------------------------------------------------
(* What is rendered, lines 259-392: which handlers the user can reach *)

\* disabled={status = 'processing'}, line 270
SelectButtonEnabled == status # "processing"

\* line 320
SplitButtonShown == status = "ready" /\ videoDuration > SEGMENT_DURATION

\* line 375
ResetButtonShown == status \in {"error", "completed"}

-----------------------------------------------------------------------------

Init ==
  /\ status = "idle"
  /\ error = NoError
  /\ warning = Null
  /\ progress = Zero
  /\ selectedFile = Null
  /\ videoDuration = 0
  /\ splitFiles = <<>>
  /\ useServerProcessing = FALSE
  /\ currentJobIdRef = NoJob
  /\ tasks = {}
  /\ nextJob = 1
  /\ terminal = {}
  /\ deleted = {}
  /\ abandoned = {}
  /\ events = 0
  /\ last = [op |-> "init", file |-> Null, task |-> NoTask, out |-> ""]

\* the continuations of the awaits
ProbeResolves == \E t \in tasks : ProbeResolve(t) /\ UNCHANGED events
ProbeRejects == \E t \in tasks : ProbeReject(t) /\ UNCHANGED events
LocalLoads == \E t \in tasks, ok \in BOOLEAN : LocalLoaded(t, ok) /\ UNCHANGED events
LocalFetches == \E t \in tasks, ok \in BOOLEAN : LocalFetched(t, ok) /\ UNCHANGED events
LocalRuns == \E t \in tasks, out \in LocalOutcomes : LocalRan(t, out) /\ UNCHANGED events
Uploads == \E t \in tasks, ok \in BOOLEAN : Uploaded(t, ok) /\ UNCHANGED events
PollIssues == \E t \in tasks : PollIssue(t) /\ UNCHANGED events
PollAnswers == \E t \in tasks, jobStatus \in JobStatuses : PollAnswer(t, jobStatus) /\ UNCHANGED events
CancelSettles == \E t \in tasks, ok \in BOOLEAN : CancelSettled(t, ok) /\ UNCHANGED events

Settle ==
  \/ ProbeResolves \/ ProbeRejects
  \/ LocalLoads \/ LocalFetches \/ LocalRuns
  \/ Uploads \/ PollIssues \/ PollAnswers
  \/ CancelSettles

\* a handler call, the max-th at most
Event(handler, max) ==
  /\ events < max
  /\ events' = events + 1
  /\ handler

\* the component as rendered: the user reaches a handler through its button
ClickSelect == SelectButtonEnabled /\ \E name \in FileNames : Event(HandleFileSelect(name), MaxEvents)
ClickSelectNone == SelectButtonEnabled /\ Event(HandleFileSelectNone, MaxEvents)
ClickSplit == SplitButtonShown /\ Event(HandleSplit, MaxEvents)
ClickReset == ResetButtonShown /\ Event(HandleReset, MaxEvents)

Next == ClickSelect \/ ClickSelectNone \/ ClickSplit \/ ClickReset \/ Settle

Spec == Init /\ [][Next]_vars

\* the handlers called in any state, whatever is rendered
CallSelect == \E name \in FileNames : Event(HandleFileSelect(name), MaxCalls)
CallSelectNone == Event(HandleFileSelectNone, MaxCalls)
CallSplit == Event(HandleSplit, MaxCalls)
CallReset == Event(HandleReset, MaxCalls)

NextCore == CallSelect \/ CallSelectNone \/ CallSplit \/ CallReset \/ Settle

SpecCore == Init /\ [][NextCore]_vars


-----------------------------------------------------------------------------
(* Properties *)

\* the step is a handler call
Called == events' = events + 1

Oversize(name) ==
  /\ FileOf(name).type[1] = "video"
  /\ \/ FileOf(name).size[1] > 5 * 1024
     \/ FileOf(name).size[1] = 5 * 1024 /\ FileOf(name).size[2] > 0

\* C1: a selectFile of a video file larger than 5 GiB, in any state, ends in
\* status 'error' with a message; it starts no probe and leaves the selected
\* file and the path choice as they were, whatever the file's duration.
C1_OversizeRejected ==
  [][\A name \in FileNames :
       (Called /\ last'.op = "selectFile" /\ last'.file = name /\ Oversize(name))
         => /\ status' = "error"
            /\ error' # NoError
            /\ tasks' = tasks
            /\ selectedFile' = selectedFile
            /\ useServerProcessing' = useServerProcessing]_vars

\* an oversize file of at most 120 s was selected while an earlier probe waits
C1_Witness ==
  /\ last.op = "selectFile" /\ last.file = "D"
  /\ status = "error"
  /\ OfKind("probe") # {}

RuleTable(name) ==
  LET f == FileOf(name) IN
  IF f.dur <= 120
    THEN warning = "NoSplitNeeded"
    ELSE IF f.size[1] > 300 \/ (f.size[1] = 300 /\ f.size[2] > 0)
    THEN useServerProcessing /\ warning = "LargeFileUsingRemote"
    ELSE ~useServerProcessing /\ warning = Null

\* C2: when the probe of an accepted file succeeds, the session is 'ready'
\* with the plan of the rule table for that file's size and duration, and a
\* startSplit goes to the server exactly when the path is Remote.
C2_PlanIsRuleTable ==
  /\ last.op = "probeResolve" => status = "ready" /\ RuleTable(last.file)
  /\ (last.op = "startSplit" /\ last.task # NoTask) =>
       (last.task.kind = "remote" <=> useServerProcessing)

\* C3: a startSplit while the plan says no split is needed starts nothing and
\* does not enter 'processing'.
C3_NoSplitRejected ==
  [][(Called /\ last'.op = "startSplit" /\ status = "ready" /\ selectedFile # Null
        /\ videoDuration <= 120)
       => (status' # "processing" /\ tasks' = tasks)]_vars

\* the least n with n * 120 >= d
Ceil120(d) == CHOOSE n \in 0..d : n * 120 >= d /\ (n = 0 \/ (n - 1) * 120 < d)

\* C4: a local run started with duration D that completes publishes exactly
\* ceil(D/120) segments, numbered 1, 2, ... in order, segment k cut from
\* start offset (k-1)*120.
C4_SegmentsOneToN ==
  last.op = "localDone" =>
    LET n == Ceil120(last.task.D) IN
    /\ Len(splitFiles) = n
    /\ Len(last.task.calls) = n
    /\ \A k \in 1..n : /\ splitFiles[k].partNumber = k
                       /\ last.task.calls[k][1] = (k - 1) * 120

\* a run over 241 s has just published three segments
C4_Witness ==
  /\ last.op = "localDone" /\ last.task.D = 241
  /\ status = "completed"
  /\ Len(splitFiles) = 3

NonDecreasing(w) == \A k \in 1..(Len(w) - 1) : FracLE(w[k], w[k + 1])

\* C5: the progress values a local run writes start at 0 and never decrease,
\* the session's progress is the value the run wrote last, and a run that
\* completes has written exactly 100 last.
C5_LocalProgress ==
  /\ \A t \in OfKind("local") : t.written[1] = Zero /\ NonDecreasing(t.written)
  /\ last.op \in {"localFetched", "localRan", "localDone", "localFail"} =>
       NonDecreasing(last.task.written)
  /\ last.op \in {"localFetched", "localRan"} =>
       progress = last.task.written[Len(last.task.written)]
  /\ last.op = "localDone" =>
       /\ progress = last.task.written[Len(last.task.written)]
       /\ FracEq(progress, <<100, 1>>)

\* a run of three segments has completed at 100 after seven writes
C5_Witness ==
  /\ last.op = "localDone"
  /\ Len(last.task.written) = 7
  /\ FracEq(progress, <<100, 1>>)

\* C6: no status poll goes out for a job after a poll of it answered
\* 'completed', 'error' or failed, and no flow is left that would send one;
\* after an answer 'processing' the flow waits for its next poll, however
\* many polls came before.
C6_PollingStops ==
  /\ last.op = "pollIssue" => last.task.jobId \notin terminal
  /\ \A t \in Polling : t.jobId \notin terminal
  /\ (last.op = "pollAnswer" /\ last.out = "processing") =>
       \E t \in Polling : t.jobId = last.task.jobId /\ t.pc = "sleep"

\* a poll has answered 'completed' and the flow of that job is gone
C6_Witness ==
  /\ last.op = "pollAnswer" /\ last.out = "completed"
  /\ last.task.jobId \in terminal
  /\ \A t \in OfKind("remote") : t.jobId # last.task.jobId
  /\ status = "completed"
  /\ splitFiles # <<>>

\* C7: after reset the session is as it was at the start: idle, no segments,
\* no file, duration 0, progress 0, no error, no warning, no job reference,
\* and nothing of the previous plan (the path choice included).
C7_ResetClearsSession ==
  last.op = "reset" =>
    /\ status = "idle"
    /\ splitFiles = <<>>
    /\ selectedFile = Null
    /\ videoDuration = 0
    /\ progress = Zero
    /\ error = NoError
    /\ warning = Null
    /\ currentJobIdRef = NoJob
    /\ useServerProcessing = FALSE

\* C8: once a reset or selectFile has abandoned a job, no poll goes out for
\* it and the answer to a poll in flight changes nothing of the session.
C8_AbandonedJobIgnored ==
  [][/\ last'.op = "pollIssue" => last'.task.jobId \notin abandoned
     /\ (~Called /\ last'.op = "pollAnswer" /\ last'.task.jobId \in abandoned)
          => UNCHANGED <<status, progress, error, splitFiles>>]_vars

\* C9: the status leaves 'completed' or 'error' only in a reset or selectFile.
C9_TerminalLeftByUserOnly ==
  [][(status \in {"completed", "error"} /\ status' # status)
       => (Called /\ last'.op \in {"reset", "selectFile"})]_vars

\* C10: selecting an acceptable file while a job id is known enters 'loading'
\* and sends DELETE /job/{jobId} for that job.
C10_SelectCancelsJob ==
  [][(Called /\ last'.op = "selectFile" /\ last'.out = "probing"
        /\ currentJobIdRef # NoJob)
       => (status' = "loading" /\ currentJobIdRef \in deleted')]_vars


\* the jobs submitted so far that no poll has seen end and no DELETE names
InFlight == {j \in 1..(nextJob - 1) : j \notin terminal /\ j \notin deleted}

\* C11: at most one remote job is in flight: when a job is submitted, every
\* job submitted before it has been seen 'completed' or 'error' (or its
\* status request failed) or has been sent a DELETE.
C11_OneJobInFlight == Cardinality(InFlight) <= 1

\* C12: the published segment list is non-empty only in status 'completed'.
C12_SegmentsOnlyWhenCompleted == splitFiles # <<>> => status = "completed"

\* C13: a reset with a known job id sends exactly one DELETE, for that id,
\* and clears the reference; a reset with none sends nothing; either way it
\* ends in 'idle' with no error, and the DELETE's answer, whatever it is,
\* changes nothing of the session.
C13_ResetCancelsOnce ==
  [][/\ (Called /\ last'.op = "reset") =>
          /\ status' = "idle" /\ error' = NoError /\ currentJobIdRef' = NoJob
          /\ IF currentJobIdRef # NoJob
               THEN /\ Cardinality(tasks' \ tasks) = 1
                    /\ \A t \in tasks' \ tasks :
                         t.kind = "cancel" /\ t.jobId = currentJobIdRef
                    /\ tasks \subseteq tasks'
               ELSE tasks' = tasks
     /\ last'.op = "cancelSettled" => UNCHANGED session]_vars

\* a DELETE sent by a reset has failed and the session is still idle
C13_Witness ==
  /\ last.op = "cancelSettled" /\ last.out = "failed"
  /\ last.task.jobId \in deleted
  /\ status = "idle"
  /\ error = NoError

\* the steps that send a transcode or a status poll
Issues == {"localFetched", "localRan", "pollIssue"}

\* C14: every failure leaves status 'error' and one message, the service's
\* detail for a remote 'error'; and from then until the user resets or
\* selects a file, no transcode or status poll goes out (a probe or an
\* upload only ever starts in a handler).
C14_FailureIsFinal ==
  [][/\ last'.op \in {"probeReject", "localFail", "uploadFailed"} =>
          status' = "error" /\ error' # NoError
     /\ last'.out \in {"notVideo", "tooLarge", "localThrew"} =>
          status' = "error" /\ error' # NoError
     /\ (last'.op = "pollAnswer" /\ last'.task.pc = "failed") =>
          /\ status' = "error"
          /\ error' \in {<<"server", "decode failed">>, <<"server", "processing error">>,
                         <<"server", "status failed">>}
     /\ (status = "error" /\ ~Called) => last'.op \notin Issues]_vars

\* C15: never two probes outstanding, never two runs or jobs running, and
\* in 'processing' no handler can be called.
C15_OneOperation ==
  [][/\ Cardinality(OfKind("probe")) <= 1
     /\ Cardinality(OfKind("local") \cup OfKind("remote")) <= 1
     /\ status = "processing" => ~Called]_vars

\* C16: in 'ready' a file is selected and the stored duration is the result
\* of a successful probe.
C16_ReadyHasFileAndDuration ==
  status = "ready" =>
    /\ selectedFile # Null
    /\ \E name \in FileNames : FileOf(name).readable /\ videoDuration = FileOf(name).dur

\* C17: a local run that fails once the input is written has deleted
\* input.mp4 and released the object URLs of the segments it made.
C17_FailureReleases ==
  (last.op = "localFail" /\ last.out \in {"run", "read", "unlink"}) =>
    /\ InputFileName \notin last.task.fs
    /\ last.task.urls = {}

MinOf(a, b) == IF a <= b THEN a ELSE b

\* C18: the k-th transcode of a run over D is asked for start (k-1)*120 and
\* duration min(120, D - (k-1)*120).
C18_RequestedRanges ==
  \A t \in OfKind("local") : \A k \in 1..Len(t.calls) :
    t.calls[k] = <<(k - 1) * 120, MinOf(120, t.D - (k - 1) * 120)>>

\* C18, as the code has it: the k-th transcode of a run is asked for start
\* (k-1)*120 and duration 120, whatever is left of D; a run asks for at most
\* ceil(D/120) transcodes and a completed run for exactly that many.
C18_FixedLengthRequests ==
  /\ \A t \in OfKind("local") :
       /\ Len(t.calls) <= Ceil120(t.D)
       /\ \A k \in 1..Len(t.calls) : t.calls[k] = <<(k - 1) * 120, 120>>
  /\ last.op = "localDone" =>
       /\ Len(last.task.calls) = Ceil120(last.task.D)
       /\ \A k \in 1..Len(last.task.calls) : last.task.calls[k] = <<(k - 1) * 120, 120>>

\* a completed run whose last request reaches past the end of the video
C18_Witness ==
  /\ last.op = "localDone"
  /\ Len(last.task.calls) = 3
  /\ last.task.calls[3][1] + last.task.calls[3][2] > last.task.D

\* C19: while a transcode runs, the runtime holds the input and nothing of
\* the earlier segments (so with the output being written, one output at
\* most); a failed run holds at most the input and the output of its
\* segment; a completed run holds nothing.
C19_WorkingSet ==
  /\ \A t \in OfKind("local") :
       /\ t.pc = "run" => t.fs = {InputFileName}
       /\ t.pc \in {"load", "fetch"} => t.fs = {}
  /\ last.op = "localFail" =>
       last.task.fs \subseteq {InputFileName, OutputFileName(last.task.i)}
  /\ last.op = "localDone" => last.task.fs = {}

\* the third transcode of a run is under way
C19_Witness ==
  \E t \in OfKind("local") : t.pc = "run" /\ t.i = 2 /\ Len(t.files) = 2

\* C20: in 'ready' the stored duration, warning and path choice are those of
\* the selected file, and a probe result is taken only for the file that is
\* selected when it arrives.
C20_PlanOfSelectedFile ==
  /\ last.op = "probeResolve" => last.file = selectedFile
  /\ status = "ready" =>
       /\ selectedFile # Null
       /\ videoDuration = FileOf(selectedFile).dur
       /\ RuleTable(selectedFile)
       /\ useServerProcessing = (FileOf(selectedFile).size[1] > 300
                                 \/ (FileOf(selectedFile).size[1] = 300
                                     /\ FileOf(selectedFile).size[2] > 0))


====
